---- MODULE Spec2Model ----
(***************************************************************************)
(* A model of two parts of pykickstart:                                    *)
(*   - the multipath list command (pykickstart/commands/multipath.py):     *)
(*     FC6_MultiPath.parse, dataList and the three __str__ renderers;      *)
(*   - the sections (pykickstart/sections.py): Section, NullSection,       *)
(*     ScriptSection with its four subclasses, and PackageSection.         *)
(* Strings whose characters matter (the --name value, script lines) are    *)
(* sequences of one-character strings; --device and --rule values are      *)
(* opaque strings, only ever compared for equality.                        *)
(***************************************************************************)
EXTENDS Integers, Sequences, FiniteSets, TLC

VARIABLES
    mpaths,     \* FC6_MultiPath.mpaths: sequence of [name, paths]
    lineno,     \* FC6_MultiPath.lineno: line of the directive being parsed
    args,       \* the namespace (ns) of the parse call that has just returned
    ret,        \* what that parse call returned or raised
    pc,         \* "idle": between directives; "returned": parse has returned
    kind,       \* which Section subclass the section is an instance of
    dataObj,    \* whether the section was constructed with a dataObj
    script,     \* ScriptSection._script
    timesSeen,  \* Section.timesSeen
    scripts,    \* handler.scripts: the calls dataObj(body, **kwargs), in order
    phase,      \* "Idle" or "Accumulating": where the parser is in a section
    fileLine,   \* number of file lines the parser has read so far
    delivered,  \* history: the lines given to handleLine since the last header
    origin,     \* history: for each record of scripts, delivered at its finalize
    header,     \* history: namespace and line number of the last handleHeader
    originHeader,   \* history: for each record of scripts, header at its finalize
    headerCalls,    \* history: number of handleHeader calls made so far
    packages,   \* handler.packages: the shared package-configuration record
    added,      \* the arguments of the calls handler.packages.add(...), in order
    raised      \* how the last PackageSection.handleHeader call ended

mpvars == <<mpaths, lineno, args, ret, pc>>

scriptvars ==
    <<kind, dataObj, script, timesSeen, scripts, phase, fileLine, delivered,
      origin, header, originHeader, headerCalls>>

pkgvars == <<packages, added, raised>>

vars == <<mpaths, lineno, args, ret, pc, kind, dataObj, script, timesSeen,
          scripts, phase, fileLine, delivered, origin, header, originHeader,
          headerCalls, packages, added, raised>>

(***************************************************************************)
(* Bounds and input sets                                                   *)
(***************************************************************************)
\* number of multipath directives in one kickstart file
MaxCalls == 3

\* --name values: two plain names, a name with a directory part, a name
\* ending in '/', and the empty name
Names == { <<"a">>, <<"b">>, <<"d", "/", "a">>, <<"a", "/">>, <<>> }

Devices == {"sda", "sdb", "sdc"}

Rules == {"failover", "roundrobin"}

(***************************************************************************)
(* Data records                                                            *)
(***************************************************************************)
\* FC6_MpPathData() as constructed with no keyword arguments
FC6_MpPathData ==
    [name |-> <<>>, mpdev |-> <<>>, device |-> "", rule |-> "", lineno |-> 0]

\* FC6_MultiPathData(name=n): paths defaults to a fresh empty list
FC6_MultiPathData(n) == [name |-> n, paths |-> <<>>]

NoArgs == [name |-> <<>>, device |-> "", rule |-> ""]

NoReturn ==
    [kind |-> "none", group |-> FC6_MultiPathData(<<>>), path |-> FC6_MpPathData,
     device |-> "", multipathdev |-> <<>>]

(***************************************************************************)
(* str.split(sep) and the derived device name                              *)
(***************************************************************************)
RECURSIVE split(_, _)
split(s, sep) ==
    IF \E i \in 1..Len(s) : s[i] = sep
    THEN LET i == CHOOSE k \in 1..Len(s) :
                      s[k] = sep /\ \A j \in 1..(k - 1) : s[j] # sep
         IN  <<SubSeq(s, 1, i - 1)>> \o split(SubSeq(s, i + 1, Len(s)), sep)
    ELSE <<s>>

\* dd.mpdev = dd.name.split('/')[-1]
mpdevOf_full(name) == name

mpdevOf(name) == LET parts == split(name, "/") IN parts[Len(parts)]

\* dd after set_to_obj(ns, dd), dd.lineno = self.lineno and the mpdev line
candidate(ns, ln) ==
    [FC6_MpPathData EXCEPT !.name = ns.name, !.device = ns.device,
                           !.rule = ns.rule, !.lineno = ln,
                           !.mpdev = mpdevOf(ns.name)]

(***************************************************************************)
(* FC6_MultiPath.parse                                                     *)
(***************************************************************************)
\* inner loop: index of the first path of the group with this device, or 0
conflictIn(paths, device) ==
    IF \E i \in 1..Len(paths) : paths[i].device = device
    THEN CHOOSE i \in 1..Len(paths) :
             paths[i].device = device
             /\ \A j \in 1..(i - 1) : paths[j].device # device
    ELSE 0

errorMapping_name(path) == [device |-> path.device, multipathdev |-> path.name]

\* mapping = {"device": path.device, "multipathdev": path.mpdev}
errorMapping(path) == [device |-> path.device, multipathdev |-> path.mpdev]

RECURSIVE scanGroups_target(_, _, _, _)
scanGroups_target(mp, dd, x, parent) ==
    IF x > Len(mp)
    THEN [raised |-> FALSE, parent |-> parent, mapping |-> errorMapping(dd)]
    ELSE LET mpath == mp[x]
             c == IF mpath.name = dd.mpdev
                  THEN conflictIn(mpath.paths, dd.device) ELSE 0
         IN  IF c # 0
             THEN [raised |-> TRUE, parent |-> parent,
                   mapping |-> errorMapping(mpath.paths[c])]
             ELSE scanGroups_target(mp, dd, x + 1,
                                    IF mpath.name = dd.mpdev THEN x ELSE parent)

\* the loop over range(0, len(self.mpaths)), from index x on (1-based here;
\* parent = 0 stands for None)
RECURSIVE scanGroups(_, _, _, _)
scanGroups(mp, dd, x, parent) ==
    IF x > Len(mp)
    THEN [raised |-> FALSE, parent |-> parent, mapping |-> errorMapping(dd)]
    ELSE LET mpath == mp[x]
             c == conflictIn(mpath.paths, dd.device)
         IN  IF c # 0
             THEN [raised |-> TRUE, parent |-> parent,
                   mapping |-> errorMapping(mpath.paths[c])]
             ELSE scanGroups(mp, dd, x + 1,
                             IF mpath.name = dd.mpdev THEN x ELSE parent)

raiseError_late(mp, dd, scan) ==
    [kind |-> "error", mpaths |-> Append(mp, [name |-> dd.name, paths |-> <<dd>>]),
     group |-> NoReturn.group, path |-> NoReturn.path,
     device |-> scan.mapping.device, multipathdev |-> scan.mapping.multipathdev]

\* raise KickstartParseError(...): nothing has been changed yet
raiseError(mp, dd, scan) ==
    [kind |-> "error", mpaths |-> mp,
     group |-> NoReturn.group, path |-> NoReturn.path,
     device |-> scan.mapping.device, multipathdev |-> scan.mapping.multipathdev]

newGroup_empty(mp, dd) ==
    [kind |-> "group", mpaths |-> mp,
     group |-> FC6_MultiPathData(dd.name), path |-> NoReturn.path,
     device |-> "", multipathdev |-> <<>>]

\* parent is None: a new group holding dd is returned; self.mpaths is not
\* touched
newGroup(mp, dd) ==
    [kind |-> "group", mpaths |-> mp,
     group |-> [FC6_MultiPathData(dd.name) EXCEPT !.paths = Append(@, dd)],
     path |-> NoReturn.path, device |-> "", multipathdev |-> <<>>]

appendPath_front(mp, parent, dd) ==
    [kind |-> "path",
     mpaths |-> [mp EXCEPT ![parent].paths = <<dd>> \o @],
     group |-> NoReturn.group, path |-> dd, device |-> "", multipathdev |-> <<>>]

\* parent found: dd is appended in place to self.mpaths[parent].paths
appendPath(mp, parent, dd) ==
    [kind |-> "path",
     mpaths |-> [mp EXCEPT ![parent].paths = Append(@, dd)],
     group |-> NoReturn.group, path |-> dd, device |-> "", multipathdev |-> <<>>]

\* parse(args) on a command whose sequence is mp: the outcome and the
\* sequence as parse leaves it
parse(mp, ns, ln) ==
    LET dd   == candidate(ns, ln)
        scan == scanGroups(mp, dd, 1, 0)
    IN  IF scan.raised THEN raiseError(mp, dd, scan)
        ELSE IF scan.parent = 0 THEN newGroup(mp, dd)
        ELSE appendPath(mp, scan.parent, dd)

\* dataList(): the live sequence itself
dataList == mpaths

(***************************************************************************)
(* The caller of parse: it stores a returned new group in dataList()       *)
(***************************************************************************)
storeReturned(mp, r) == IF r.kind = "group" THEN Append(mp, r.group) ELSE mp

(***************************************************************************)
(* Actions of the multipath command                                        *)
(***************************************************************************)
MPConstructed ==
    /\ mpaths = <<>>
    /\ lineno = 0
    /\ args = NoArgs
    /\ ret = NoReturn
    /\ pc = "idle"

\* one multipath directive reaches parse
ParseCall(name, device, rule) ==
    /\ pc = "idle"
    /\ lineno < MaxCalls
    /\ LET ns == [name |-> name, device |-> device, rule |-> rule]
           r  == parse(mpaths, ns, lineno + 1)
       IN  /\ lineno' = lineno + 1
           /\ args' = ns
           /\ mpaths' = r.mpaths
           /\ ret' = [kind |-> r.kind, group |-> r.group, path |-> r.path,
                      device |-> r.device, multipathdev |-> r.multipathdev]
           /\ pc' = "returned"
           /\ UNCHANGED <<scriptvars, pkgvars>>

\* the caller takes what parse returned
Dispatch ==
    /\ pc = "returned"
    /\ mpaths' = storeReturned(mpaths, ret)
    /\ args' = NoArgs
    /\ ret' = NoReturn
    /\ pc' = "idle"
    /\ UNCHANGED <<lineno, scriptvars, pkgvars>>

(***************************************************************************)
(* Script sections (sections.py)                                           *)
(***************************************************************************)
\* number of lines of the kickstart file given to one script section:
\* headers, body lines and %end lines together
MaxFileLines == 6

Kinds == {"Pre", "PreInstall", "Post", "Traceback"}

\* body lines, each with its trailing newline: an empty line, a line of one
\* blank, a command
Lines == { <<"\n">>, <<" ", "\n">>, <<"l", "s", "\n">> }

\* the value None of an optional string
None == "None"

\* the line number None is written 0: file lines are numbered from 1
NoLine == 0

\* pykickstart.constants names the script types; sections.py only passes
\* them on
KS_SCRIPT_PRE == "KS_SCRIPT_PRE"
KS_SCRIPT_POST == "KS_SCRIPT_POST"
KS_SCRIPT_TRACEBACK == "KS_SCRIPT_TRACEBACK"
KS_SCRIPT_PREINSTALL == "KS_SCRIPT_PREINSTALL"

Section_handleHeader_set(t) == 1

\* Section.handleHeader: self.timesSeen += 1
Section_handleHeader(t) == t + 1

\* the property Section.seen
seen == timesSeen > 0

\* no handleHeader call has been made yet
NoHeader ==
    [ns |-> [errorOnFail |-> FALSE, interpreter |-> "/bin/sh", log |-> None],
     lineno |-> NoLine]

\* ScriptSection._resetScript
ScriptSection_resetScript ==
    [interp |-> "/bin/sh", log |-> None, errorOnFail |-> FALSE,
     lineno |-> NoLine, chroot |-> FALSE, body |-> <<>>, type |-> None]

resetScript_copied(k) ==
    CASE k = "Pre" ->
             [ScriptSection_resetScript EXCEPT !.type = KS_SCRIPT_PRE]
      [] k = "PreInstall" ->
             [ScriptSection_resetScript EXCEPT !.type = KS_SCRIPT_PRE]
      [] k = "Post" ->
             [ScriptSection_resetScript EXCEPT !.chroot = TRUE,
                                               !.type = KS_SCRIPT_POST]
      [] k = "Traceback" ->
             [ScriptSection_resetScript EXCEPT !.type = KS_SCRIPT_TRACEBACK]

\* _resetScript as each subclass overrides it
resetScript(k) ==
    CASE k = "Pre" ->
             [ScriptSection_resetScript EXCEPT !.type = KS_SCRIPT_PRE]
      [] k = "PreInstall" ->
             [ScriptSection_resetScript EXCEPT !.type = KS_SCRIPT_PREINSTALL]
      [] k = "Post" ->
             [ScriptSection_resetScript EXCEPT !.chroot = TRUE,
                                               !.type = KS_SCRIPT_POST]
      [] k = "Traceback" ->
             [ScriptSection_resetScript EXCEPT !.type = KS_SCRIPT_TRACEBACK]

\* the namespaces op.parse_args can build from a header of a section of
\* kind k: _getParser gives every kind --erroronfail, --interpreter and
\* --log, and PostScriptSection adds --nochroot
Namespaces(k) ==
    LET common == [errorOnFail : BOOLEAN,
                   interpreter : {"/bin/sh", "/usr/bin/python"},
                   log : {None, "/tmp/ks.log"}]
    IN  IF k = "Post"
        THEN { [errorOnFail |-> c.errorOnFail, interpreter |-> c.interpreter,
                log |-> c.log, nochroot |-> n] : c \in common, n \in BOOLEAN }
        ELSE common

hasattr_never(ns, attr) == FALSE

hasattr(ns, attr) == attr \in DOMAIN ns

\* str.join: the strings of seq with sep between them
RECURSIVE join(_, _)
join(sep, seq) ==
    IF Len(seq) = 0 THEN <<>>
    ELSE IF Len(seq) = 1 THEN seq[1]
    ELSE seq[1] \o sep \o join(sep, Tail(seq))

\* the whitespace characters str.strip() removes
Whitespace == {" ", "\t", "\n", "\r", "\f"}

RECURSIVE lstrip(_)
lstrip(s) ==
    IF Len(s) > 0 /\ s[1] \in Whitespace THEN lstrip(Tail(s)) ELSE s

RECURSIVE rstrip(_)
rstrip(s) ==
    IF Len(s) > 0 /\ s[Len(s)] \in Whitespace
    THEN rstrip(SubSeq(s, 1, Len(s) - 1)) ELSE s

strip(s) == rstrip(lstrip(s))

suppressed_empty(body) == body = <<>>

\* " ".join(self._script["body"]).strip() == ""
suppressed(body) == strip(join(<<" ">>, body)) = <<>>

\* the call self.dataObj(self._script["body"], **kwargs)
scriptRecord(sc) ==
    [body |-> sc.body, interp |-> sc.interp, inChroot |-> sc.chroot,
     lineno |-> sc.lineno, logfile |-> sc.log, errorOnFail |-> sc.errorOnFail,
     type |-> sc.type]

\* the section as __init__ leaves it
ScriptConstructed ==
    /\ kind \in Kinds
    /\ dataObj \in BOOLEAN
    /\ script = resetScript(kind)
    /\ timesSeen = 0
    /\ scripts = <<>>
    /\ phase = "Idle"
    /\ fileLine = 0
    /\ delivered = <<>>
    /\ origin = <<>>
    /\ header = NoHeader
    /\ originHeader = <<>>
    /\ headerCalls = 0

\* ScriptSection.handleHeader(lineno, args), ns being the parsed args
handleHeader(ns) ==
    /\ phase = "Idle"
    /\ fileLine < MaxFileLines
    /\ fileLine' = fileLine + 1
    /\ timesSeen' = Section_handleHeader(timesSeen)
    /\ script' = [script EXCEPT
                     !.interp = ns.interpreter,
                     !.lineno = fileLine + 1,
                     !.log = ns.log,
                     !.errorOnFail = ns.errorOnFail,
                     !.chroot = IF hasattr(ns, "nochroot")
                                THEN ~ns.nochroot ELSE @]
    /\ phase' = "Accumulating"
    /\ delivered' = <<>>
    /\ header' = [ns |-> ns, lineno |-> fileLine + 1]
    /\ headerCalls' = headerCalls + 1
    /\ UNCHANGED <<kind, dataObj, scripts, origin, originHeader, mpvars, pkgvars>>

\* ScriptSection.handleLine(line)
handleLine(line) ==
    /\ phase = "Accumulating"
    /\ fileLine < MaxFileLines
    /\ fileLine' = fileLine + 1
    /\ script' = [script EXCEPT !.body = Append(@, line)]
    /\ delivered' = Append(delivered, line)
    /\ UNCHANGED <<kind, dataObj, timesSeen, scripts, phase, origin, header,
                   originHeader, headerCalls, mpvars, pkgvars>>

\* ScriptSection.finalize(), called at %end
finalize ==
    /\ phase = "Accumulating"
    /\ fileLine < MaxFileLines
    /\ fileLine' = fileLine + 1
    /\ phase' = "Idle"
    /\ IF suppressed(script.body)
       THEN UNCHANGED <<script, scripts, origin, originHeader>>
       ELSE IF dataObj
       THEN /\ scripts' = Append(scripts, scriptRecord(script))
            /\ script' = resetScript(kind)
            /\ origin' = Append(origin, delivered)
            /\ originHeader' = Append(originHeader, header)
       ELSE UNCHANGED <<script, scripts, origin, originHeader>>
    /\ UNCHANGED <<kind, dataObj, timesSeen, delivered, header, headerCalls,
                   mpvars, pkgvars>>

(***************************************************************************)
(* Section, NullSection and PackageSection (sections.py)                   *)
(***************************************************************************)
\* pykickstart.constants names the policies; sections.py only passes them on
KS_MISSING_IGNORE == "KS_MISSING_IGNORE"
KS_MISSING_PROMPT == "KS_MISSING_PROMPT"

\* body lines of %packages: a package with a comment, a comment
PackageLines == { <<"v", "i", " ", "#", "c", "\n">>, <<"#", "c", "\n">> }

\* the namespaces op.parse_args can build from a %packages header (the
\* resolveDeps attribute is never read): every combination of --nobase,
\* --nocore, --default and --instLangs, with at most one of --excludedocs,
\* --ignoremissing and --multilib
PackageNamespaces ==
    { [excludedocs |-> f = "excludedocs", ignoremissing |-> f = "ignoremissing",
       multiLib |-> f = "multilib", nobase |-> c.nobase, nocore |-> c.nocore,
       defaultPackages |-> c.defaultPackages, instLangs |-> c.instLangs] :
         f \in {"", "excludedocs", "ignoremissing", "multilib"},
         c \in [nobase : BOOLEAN, nocore : BOOLEAN, defaultPackages : BOOLEAN,
                instLangs : {None, "en_US"}] }

\* the package-configuration record of a new handler: nothing excluded, the
\* base group added, missing packages prompted for, not yet seen
PackagesConstructed ==
    /\ packages = [excludeDocs |-> FALSE, addBase |-> TRUE,
                   handleMissing |-> KS_MISSING_PROMPT, default |-> FALSE,
                   instLangs |-> None, nocore |-> FALSE, multiLib |-> FALSE,
                   seen |-> FALSE]
    /\ added = <<>>
    /\ raised = [kind |-> "none", msg |-> "", lineno |-> NoLine]

\* line.partition(sep)[0]: what precedes the first sep, or the whole string
partitionHead(line, sep) == split(line, sep)[1]

writePackages_default(pk, ns) ==
    [pk EXCEPT
        !.excludeDocs = ns.excludedocs,
        !.addBase = ~ns.nobase,
        !.handleMissing = IF ns.ignoremissing
                          THEN KS_MISSING_IGNORE ELSE KS_MISSING_PROMPT,
        !.default = ns.defaultPackages,
        !.instLangs = IF ns.instLangs # None THEN ns.instLangs ELSE @,
        !.nocore = ns.nocore,
        !.multiLib = ns.multiLib,
        !.seen = TRUE]

writePackages_instLangs(pk, ns) ==
    [pk EXCEPT
        !.excludeDocs = ns.excludedocs,
        !.addBase = ~ns.nobase,
        !.handleMissing = IF ns.ignoremissing
                          THEN KS_MISSING_IGNORE ELSE KS_MISSING_PROMPT,
        !.default = IF ns.defaultPackages THEN TRUE ELSE @,
        !.instLangs = ns.instLangs,
        !.nocore = ns.nocore,
        !.multiLib = ns.multiLib,
        !.seen = TRUE]

writePackages_nobase(pk, ns) ==
    [pk EXCEPT
        !.excludeDocs = ns.excludedocs,
        !.addBase = ns.nobase,
        !.handleMissing = IF ns.ignoremissing
                          THEN KS_MISSING_IGNORE ELSE KS_MISSING_PROMPT,
        !.default = IF ns.defaultPackages THEN TRUE ELSE @,
        !.instLangs = IF ns.instLangs # None THEN ns.instLangs ELSE @,
        !.nocore = ns.nocore,
        !.multiLib = ns.multiLib,
        !.seen = TRUE]

\* the assignments to self.handler.packages after the validation
writePackages(pk, ns) ==
    [pk EXCEPT
        !.excludeDocs = ns.excludedocs,
        !.addBase = ~ns.nobase,
        !.handleMissing = IF ns.ignoremissing
                          THEN KS_MISSING_IGNORE ELSE KS_MISSING_PROMPT,
        !.default = IF ns.defaultPackages THEN TRUE ELSE @,
        !.instLangs = IF ns.instLangs # None THEN ns.instLangs ELSE @,
        !.nocore = ns.nocore,
        !.multiLib = ns.multiLib,
        !.seen = TRUE]

parseError(ln, msg) == [kind |-> "error", msg |-> msg, lineno |-> ln]

PackageSection_handleHeader_written(t, pk, ns, ln) ==
    LET t1 == Section_handleHeader(t)
    IN  IF ns.defaultPackages /\ ns.nobase
        THEN [timesSeen |-> t1, packages |-> writePackages(pk, ns),
              raised |-> parseError(ln,
                  "--default and --nobase cannot be used together")]
        ELSE IF ns.defaultPackages /\ ns.nocore
        THEN [timesSeen |-> t1, packages |-> writePackages(pk, ns),
              raised |-> parseError(ln,
                  "--default and --nocore cannot be used together")]
        ELSE [timesSeen |-> t1, packages |-> writePackages(pk, ns),
              raised |-> [kind |-> "ok", msg |-> "", lineno |-> NoLine]]

PackageSection_handleHeader_checkFirst(t, pk, ns, ln) ==
    IF ns.defaultPackages /\ ns.nobase
    THEN [timesSeen |-> t, packages |-> pk,
          raised |-> parseError(ln,
              "--default and --nobase cannot be used together")]
    ELSE IF ns.defaultPackages /\ ns.nocore
    THEN [timesSeen |-> t, packages |-> pk,
          raised |-> parseError(ln,
              "--default and --nocore cannot be used together")]
    ELSE [timesSeen |-> Section_handleHeader(t),
          packages |-> writePackages(pk, ns),
          raised |-> [kind |-> "ok", msg |-> "", lineno |-> NoLine]]

\* PackageSection.handleHeader(lineno, args) on the counter t and the
\* record pk, ns being the parsed args: the counter and the record
\* afterwards, and whether KickstartParseError was raised
PackageSection_handleHeader(t, pk, ns, ln) ==
    LET t1 == Section_handleHeader(t)
    IN  IF ns.defaultPackages /\ ns.nobase
        THEN [timesSeen |-> t1, packages |-> pk,
              raised |-> parseError(ln,
                  "--default and --nobase cannot be used together")]
        ELSE IF ns.defaultPackages /\ ns.nocore
        THEN [timesSeen |-> t1, packages |-> pk,
              raised |-> parseError(ln,
                  "--default and --nocore cannot be used together")]
        ELSE [timesSeen |-> t1, packages |-> writePackages(pk, ns),
              raised |-> [kind |-> "ok", msg |-> "", lineno |-> NoLine]]

\* a section that is no script section, as __init__ leaves it
PlainConstructed ==
    /\ kind \in {"Package", "Null"}
    /\ dataObj = FALSE
    /\ script = ScriptSection_resetScript
    /\ timesSeen = 0
    /\ scripts = <<>>
    /\ phase = "Idle"
    /\ fileLine = 0
    /\ delivered = <<>>
    /\ origin = <<>>
    /\ header = NoHeader
    /\ originHeader = <<>>
    /\ headerCalls = 0

\* the parser reads a %packages header; a header that raises does not open
\* the section
PackageHeader(ns) ==
    /\ kind = "Package"
    /\ phase = "Idle"
    /\ fileLine < MaxFileLines
    /\ LET r == PackageSection_handleHeader(timesSeen, packages, ns,
                                            fileLine + 1)
       IN  /\ timesSeen' = r.timesSeen
           /\ packages' = r.packages
           /\ raised' = r.raised
           /\ phase' = IF r.raised.kind = "error"
                       THEN "Idle" ELSE "Accumulating"
    /\ fileLine' = fileLine + 1
    /\ header' = [ns |-> ns, lineno |-> fileLine + 1]
    /\ headerCalls' = headerCalls + 1
    /\ delivered' = <<>>
    /\ UNCHANGED <<kind, dataObj, script, scripts, origin, originHeader,
                   added, mpvars>>

\* PackageSection.handleLine(line)
PackageLine(line) ==
    /\ kind = "Package"
    /\ phase = "Accumulating"
    /\ fileLine < MaxFileLines
    /\ fileLine' = fileLine + 1
    /\ added' = Append(added, <<rstrip(partitionHead(line, "#"))>>)
    /\ delivered' = Append(delivered, line)
    /\ UNCHANGED <<kind, dataObj, script, timesSeen, scripts, phase, origin,
                   header, originHeader, headerCalls, packages, raised,
                   mpvars>>

\* Section.handleHeader(lineno, args), as NullSection inherits it
PlainHeader ==
    /\ kind = "Null"
    /\ phase = "Idle"
    /\ fileLine < MaxFileLines
    /\ fileLine' = fileLine + 1
    /\ timesSeen' = Section_handleHeader(timesSeen)
    /\ phase' = "Accumulating"
    /\ header' = [NoHeader EXCEPT !.lineno = fileLine + 1]
    /\ headerCalls' = headerCalls + 1
    /\ delivered' = <<>>
    /\ UNCHANGED <<kind, dataObj, script, scripts, origin, originHeader,
                   pkgvars, mpvars>>

\* Section.handleLine(line), as NullSection inherits it: pass
PlainLine(line) ==
    /\ kind = "Null"
    /\ phase = "Accumulating"
    /\ fileLine < MaxFileLines
    /\ fileLine' = fileLine + 1
    /\ delivered' = Append(delivered, line)
    /\ UNCHANGED <<kind, dataObj, script, timesSeen, scripts, phase, origin,
                   header, originHeader, headerCalls, pkgvars, mpvars>>

\* Section.finalize(), as NullSection and PackageSection inherit it: pass
PlainFinalize ==
    /\ kind \in {"Package", "Null"}
    /\ phase = "Accumulating"
    /\ fileLine < MaxFileLines
    /\ fileLine' = fileLine + 1
    /\ phase' = "Idle"
    /\ UNCHANGED <<kind, dataObj, script, timesSeen, scripts, delivered,
                   origin, header, originHeader, headerCalls, pkgvars, mpvars>>

(***************************************************************************)
(* Specifications                                                          *)
(***************************************************************************)
\* the multipath command alone; the sections stay as constructed
InitMP ==
    /\ MPConstructed
    /\ ScriptConstructed /\ kind = "Pre" /\ dataObj
    /\ PackagesConstructed

NextMP ==
    \/ \E name \in Names, device \in Devices, rule \in Rules :
           ParseCall(name, device, rule)
    \/ Dispatch

SpecMP == InitMP /\ [][NextMP]_vars

\* one script section of any kind; the multipath command stays as
\* constructed
InitScript == MPConstructed /\ ScriptConstructed /\ PackagesConstructed

NextScript ==
    \/ \E ns \in Namespaces(kind) : handleHeader(ns)
    \/ \E line \in Lines : handleLine(line)
    \/ finalize

SpecScript == InitScript /\ [][NextScript]_vars

\* the %packages section and the handler's package-configuration record
InitPackages ==
    /\ MPConstructed
    /\ PlainConstructed /\ kind = "Package"
    /\ PackagesConstructed

NextPackages ==
    \/ \E ns \in PackageNamespaces : PackageHeader(ns)
    \/ \E line \in PackageLines : PackageLine(line)
    \/ PlainFinalize

SpecPackages == InitPackages /\ [][NextPackages]_vars

\* one section of any kind
InitSections ==
    /\ MPConstructed
    /\ ScriptConstructed \/ PlainConstructed
    /\ PackagesConstructed

NextSections ==
    \/ kind \in Kinds /\ NextScript
    \/ NextPackages
    \/ PlainHeader
    \/ \E line \in Lines : PlainLine(line)

SpecSections == InitSections /\ [][NextSections]_vars

(***************************************************************************)
(* Rendering: the three __str__ methods.  A text is a sequence of symbols: *)
(* the literal pieces of the format strings, the characters of a name, a   *)
(* device, a rule.                                                         *)
(***************************************************************************)
\* BaseData.__str__ contributes nothing to the text
BaseData_str == <<>>

\* " --device=%s --rule=\"%s\"" % (self.device, self.rule)
FC6_MpPathData_str(path) ==
    <<" --device=", path.device, " --rule=\"", path.rule, "\"">>

RECURSIVE FC6_MultiPathData_str_from(_, _)
FC6_MultiPathData_str_from(mpath, i) ==
    IF i > Len(mpath.paths) THEN <<>>
    ELSE <<"multipath --name=">> \o mpath.name
             \o FC6_MpPathData_str(mpath.paths[i]) \o <<"\n">>
             \o FC6_MultiPathData_str_from(mpath, i + 1)

FC6_MultiPathData_str_first(mpath) ==
    IF Len(mpath.paths) = 0 THEN BaseData_str
    ELSE BaseData_str \o <<"multipath --name=">> \o mpath.name
             \o FC6_MpPathData_str(mpath.paths[1]) \o <<"\n">>

\* one "multipath --name=%s%s\n" line per path, in the order of self.paths
FC6_MultiPathData_str(mpath) ==
    BaseData_str \o FC6_MultiPathData_str_from(mpath, 1)

\* the groups' texts concatenated in the order of self.mpaths
RECURSIVE FC6_MultiPath_str_from(_, _)
FC6_MultiPath_str_from(mp, x) ==
    IF x > Len(mp) THEN <<>>
    ELSE FC6_MultiPathData_str(mp[x]) \o FC6_MultiPath_str_from(mp, x + 1)

FC6_MultiPath_str(mp) == FC6_MultiPath_str_from(mp, 1)

(***************************************************************************)
(* Reading a rendered text back: the wire format                           *)
(*   multipath --name=NAME --device=DEVICE --rule="RULE"                   *)
(* one directive per line, each handed to parse on a fresh command.        *)
(***************************************************************************)
\* the lines of a text, without their terminators
linesOf(text) == SelectSeq(split(text, "\n"), LAMBDA l : l # <<>>)

wellFormed(line) ==
    /\ Len(line) >= 6
    /\ line[1] = "multipath --name="
    /\ line[Len(line) - 4] = " --device="
    /\ line[Len(line) - 2] = " --rule=\""
    /\ line[Len(line)] = "\""

\* the namespace the option parser builds from one directive line
readDirective(line) ==
    [name   |-> SubSeq(line, 2, Len(line) - 5),
     device |-> line[Len(line) - 3],
     rule   |-> line[Len(line) - 1]]

\* the directives of lines[i..] parsed in order into the command mp
RECURSIVE replay(_, _, _)
replay(mp, lines, i) ==
    IF i > Len(lines) THEN [ok |-> TRUE, mpaths |-> mp]
    ELSE IF ~wellFormed(lines[i]) THEN [ok |-> FALSE, mpaths |-> mp]
    ELSE LET r == parse(mp, readDirective(lines[i]), i)
         IN  IF r.kind = "error" THEN [ok |-> FALSE, mpaths |-> r.mpaths]
             ELSE replay(storeReturned(r.mpaths, r), lines, i + 1)

(***************************************************************************)
(* Helpers of the properties                                               *)
(***************************************************************************)
\* the positions <<group index, path index>> of all paths held by mp
Positions(mp) ==
    UNION { { <<g, i>> : i \in 1..Len(mp[g].paths) } : g \in 1..Len(mp) }

PathAt(mp, pos) == mp[pos[1]].paths[pos[2]]

HasSlash(name) == \E i \in 1..Len(name) : name[i] = "/"

\* the groups' names and their ordered (device, rule) pairs
Structure(mp) ==
    [g \in 1..Len(mp) |->
        [name  |-> mp[g].name,
         paths |-> [i \in 1..Len(mp[g].paths) |->
                       <<mp[g].paths[i].device, mp[g].paths[i].rule>>]]]

\* a step in which parse runs / in which its caller takes the result
ParseStep == pc = "idle" /\ pc' = "returned"
DispatchStep == pc = "returned" /\ pc' = "idle"

(***************************************************************************)
(* Properties of the multipath command (checked under SpecMP)              *)
(***************************************************************************)
DeviceHeld(mp, device) ==
    \E pos \in Positions(mp) : PathAt(mp, pos).device = device

NameMatched(mp, name) == \E g \in 1..Len(mp) : mp[g].name = mpdevOf(name)

\* C1: in every reachable state no device identifier appears in more than
\* one path record, in the same group or across groups; and a parse call
\* whose --device is already held by any group raises the error and adds
\* no record.
C1_DeviceUnique ==
    /\ [](\A p, q \in Positions(mpaths) :
              PathAt(mpaths, p).device = PathAt(mpaths, q).device => p = q)
    /\ [][ParseStep /\ DeviceHeld(mpaths, args'.device)
              => ret'.kind = "error" /\ mpaths' = mpaths]_vars

\* a parse call was refused because of a device held by a group other than
\* the one the directive would have joined
C1_Witness ==
    /\ pc = "returned" /\ ret.kind = "error"
    /\ \E pos \in Positions(mpaths) :
           /\ PathAt(mpaths, pos).device = args.device
           /\ mpaths[pos[1]].name # mpdevOf(args.name)
    /\ \E g \in 1..Len(mpaths) : mpaths[g].name = mpdevOf(args.name)

\* C2: grouping is keyed by the derived device name: a path declared with a
\* name containing '/' and a later path declared with that name's last
\* segment (a non-empty name such as mpatha) are held by the same group.
C2_GroupedByDerivedName ==
    \A p, q \in Positions(mpaths) :
        ( /\ HasSlash(PathAt(mpaths, p).name)
          /\ PathAt(mpaths, q).name = mpdevOf(PathAt(mpaths, p).name)
          /\ PathAt(mpaths, q).name # <<>>
          /\ PathAt(mpaths, p).lineno < PathAt(mpaths, q).lineno )
        => p[1] = q[1]

\* C3: no two groups of the command's sequence have the same name.
C3_GroupNameUnique ==
    \A g, h \in 1..Len(mpaths) : mpaths[g].name = mpaths[h].name => g = h

\* C4: a parse call that fails with the duplicate-device error leaves the
\* sequence of groups, their names and their paths exactly as they were,
\* and so does the caller that receives the error.
C4_ErrorLeavesModel ==
    [][ /\ (ParseStep /\ ret'.kind = "error" => mpaths' = mpaths)
        /\ (DispatchStep /\ ret.kind = "error" => mpaths' = mpaths) ]_vars

\* a failed call on a command that already holds two paths
C4_Witness ==
    /\ pc = "returned" /\ ret.kind = "error"
    /\ Cardinality(Positions(mpaths)) >= 2

\* C5 as stated: the multipath name reported by the duplicate-device error
\* is the name of the group that holds the matching path.
C5_ErrorNamesGroup ==
    (pc = "returned" /\ ret.kind = "error")
    => \E pos \in Positions(mpaths) :
           /\ PathAt(mpaths, pos).device = args.device
           /\ ret.device = args.device
           /\ ret.multipathdev = mpaths[pos[1]].name

\* C5 amended: the error names the conflicting device and the derived device
\* name (last '/'-segment) of the name of the group that holds the matching
\* path; that is the group's name itself when the name has no '/'.
C5_ErrorNamesDerivedName ==
    (pc = "returned" /\ ret.kind = "error")
    => \E pos \in Positions(mpaths) :
           /\ PathAt(mpaths, pos).device = args.device
           /\ ret.device = args.device
           /\ ret.multipathdev = mpdevOf(mpaths[pos[1]].name)
           /\ (~HasSlash(mpaths[pos[1]].name)
                   => ret.multipathdev = mpaths[pos[1]].name)

\* the error concerns a path that joined a group under another --name than
\* the group's
C5_Witness ==
    /\ pc = "returned" /\ ret.kind = "error"
    /\ \E pos \in Positions(mpaths) :
           /\ PathAt(mpaths, pos).device = args.device
           /\ PathAt(mpaths, pos).name # mpaths[pos[1]].name

\* C6 as stated: when parse returns a new group, dataList() already
\* contains it.
C6_NewGroupInDataList ==
    (pc = "returned" /\ ret.kind = "group")
    => \E g \in 1..Len(dataList) : dataList[g] = ret.group

\* C6 amended: when no existing group matches (and no device conflicts),
\* parse returns a new group named after the candidate's --name with the
\* candidate as its sole path and leaves the command's own sequence as it
\* was; the group enters the sequence, at its end, when the caller stores
\* the returned record.
C6_NewGroupReturned ==
    [][ /\ ( ParseStep /\ ~DeviceHeld(mpaths, args'.device)
                       /\ ~NameMatched(mpaths, args'.name)
             => /\ ret'.kind = "group"
                /\ ret'.group.name = args'.name
                /\ ret'.group.paths = <<candidate(args', lineno')>>
                /\ mpaths' = mpaths )
        /\ ( ParseStep /\ ret'.kind = "group"
             => ~DeviceHeld(mpaths, args'.device)
                /\ ~NameMatched(mpaths, args'.name) )
        /\ ( DispatchStep /\ ret.kind = "group"
             => mpaths' = Append(mpaths, ret.group) ) ]_vars

\* a new group has been returned to a command that already holds a group
C6_Witness ==
    pc = "returned" /\ ret.kind = "group" /\ Len(mpaths) >= 1

\* C7: when an existing group matches, parse appends the candidate at the
\* end of that group's paths and returns the candidate; the number and
\* order of groups, the other groups and the earlier paths of the matched
\* group are unchanged, also after the caller has taken the result.
C7_AppendToMatch ==
    [][ /\ ( ParseStep /\ ~DeviceHeld(mpaths, args'.device)
                       /\ NameMatched(mpaths, args'.name)
             => /\ ret'.kind = "path"
                /\ ret'.path = candidate(args', lineno')
                /\ \E k \in 1..Len(mpaths) :
                       /\ mpaths[k].name = mpdevOf(args'.name)
                       /\ mpaths' = [mpaths EXCEPT
                              ![k].paths = Append(@, ret'.path)] )
        /\ ( ParseStep /\ ret'.kind = "path"
             => NameMatched(mpaths, args'.name) )
        /\ ( DispatchStep /\ ret.kind = "path" => mpaths' = mpaths ) ]_vars

\* a path has been appended to a group that is not the only group
C7_Witness ==
    /\ pc = "returned" /\ ret.kind = "path"
    /\ Len(mpaths) >= 2
    /\ \E g \in 1..Len(mpaths) :
           /\ Len(mpaths[g].paths) >= 2
           /\ mpaths[g].paths[Len(mpaths[g].paths)] = ret.path

FinalizeStep == phase = "Accumulating" /\ phase' = "Idle"

\* every character of every line is whitespace (so also: no lines at all)
AllBlank(lines) ==
    \A i \in 1..Len(lines) : \A j \in 1..Len(lines[i]) :
        lines[i][j] \in Whitespace

\* C9: finalize of a section whose body lines (those delivered since its
\* header) are none or all whitespace leaves the handler's script list
\* unchanged, whatever the kind and whatever sections came before.
C9_BlankBodyNoRecord ==
    [][FinalizeStep /\ AllBlank(delivered) => scripts' = scripts]_vars

\* a section with a non-empty all-whitespace body has been finalized after
\* an earlier section had produced a record
C9_Witness ==
    /\ phase = "Idle" /\ timesSeen >= 2 /\ dataObj
    /\ delivered # <<>> /\ AllBlank(delivered)
    /\ Len(scripts) >= 1

\* C10: the body of every emitted record is exactly the lines given to
\* handleLine between that record's handleHeader and its finalize; and a
\* section of one non-blank line has produced a record whose body is that
\* line.
C10_BodyIsOwnLines ==
    /\ \A i \in 1..Len(scripts) : scripts[i].body = origin[i]
    /\ ( /\ phase = "Idle" /\ timesSeen > 0 /\ dataObj
         /\ Len(delivered) = 1 /\ ~AllBlank(delivered) )
       => /\ Len(scripts) >= 1
          /\ scripts[Len(scripts)].body = delivered

\* C11: every record emitted by a %post section has inChroot = FALSE when
\* the header of its own section carried --nochroot and TRUE when it did
\* not, whatever earlier %post headers carried; every record of a %pre,
\* %pre-install or %traceback section has inChroot = FALSE.
C11_RunInChroot ==
    \A i \in 1..Len(scripts) :
        IF kind = "Post"
        THEN scripts[i].inChroot = ~originHeader[i].ns.nochroot
        ELSE scripts[i].inChroot = FALSE

\* a %post section with --nochroot has been followed by one without it,
\* and both have produced a record
C11_Witness ==
    /\ kind = "Post" /\ Len(scripts) >= 2
    /\ originHeader[1].ns.nochroot /\ ~originHeader[2].ns.nochroot

\* C16 as stated: after every finalize of a script section, also one that
\* emitted no record, the accumulation buffer is back at its defaults: no
\* body lines, interpreter /bin/sh, no log file, errorOnFail off, no line
\* number.
C16_BufferResetAfterFinalize ==
    (phase = "Idle" /\ timesSeen > 0 /\ dataObj)
    => /\ script.body = <<>>
       /\ script.interp = "/bin/sh"
       /\ script.log = None
       /\ script.errorOnFail = FALSE
       /\ script.lineno = NoLine

\* C17: every emitted record carries the interpreter, log file,
\* errorOnFail flag and line number of the handleHeader call that opened
\* its own section, and the script type of the kind of its section.
C17_RecordCarriesHeader ==
    \A i \in 1..Len(scripts) :
        /\ scripts[i].interp = originHeader[i].ns.interpreter
        /\ scripts[i].logfile = originHeader[i].ns.log
        /\ scripts[i].errorOnFail = originHeader[i].ns.errorOnFail
        /\ scripts[i].lineno = originHeader[i].lineno
        /\ scripts[i].type =
               CASE kind = "Pre" -> KS_SCRIPT_PRE
                 [] kind = "PreInstall" -> KS_SCRIPT_PREINSTALL
                 [] kind = "Post" -> KS_SCRIPT_POST
                 [] kind = "Traceback" -> KS_SCRIPT_TRACEBACK

\* a %pre-install section has produced two records under headers that
\* differ in every option
C17_Witness ==
    /\ kind = "PreInstall" /\ Len(scripts) >= 2
    /\ originHeader[1].ns.interpreter # originHeader[2].ns.interpreter
    /\ originHeader[1].ns.log # originHeader[2].ns.log
    /\ originHeader[1].ns.errorOnFail # originHeader[2].ns.errorOnFail

(***************************************************************************)
(* Properties of sections of every kind (checked under SpecSections)       *)
(***************************************************************************)
\* a step in which some handleHeader runs / in which handleLine or
\* finalize runs
HeaderStep == headerCalls' = headerCalls + 1
BodyStep == fileLine' = fileLine + 1 /\ headerCalls' = headerCalls

\* C15: for a section of any kind, timesSeen equals the number of
\* handleHeader calls made so far and seen holds exactly when that number
\* is not zero; each handleHeader call adds exactly one, also after an
\* earlier finalize, and handleLine and finalize leave the counter alone.
C15_TimesSeenCountsHeaders ==
    /\ [](timesSeen = headerCalls /\ (seen <=> headerCalls > 0))
    /\ [][ /\ (HeaderStep => timesSeen' = timesSeen + 1)
           /\ (BodyStep => timesSeen' = timesSeen) ]_vars

\* a section has been entered again after the finalize of an earlier one
C15_Witness ==
    /\ timesSeen >= 2 /\ phase = "Accumulating" /\ delivered # <<>>
    /\ kind = "Null"

(***************************************************************************)
(* Properties of the %packages section (checked under SpecPackages)        *)
(***************************************************************************)
\* the options of the header read last exclude each other
Exclusive(ns) == ns.defaultPackages /\ (ns.nobase \/ ns.nocore)

\* C12: a %packages header with --default and --nobase, or --default and
\* --nocore, raises a parse error that cites the header's line number and
\* leaves every field of the package-configuration record as it was; no
\* other header raises.
C12_ExclusivityErrorLeavesRecord ==
    [][HeaderStep =>
         /\ (raised'.kind = "error") <=> Exclusive(header'.ns)
         /\ raised'.kind = "error" =>
               /\ raised'.lineno = header'.lineno
               /\ packages' = packages]_vars

\* --default --nocore has been refused after an earlier header had changed
\* the record
C12_Witness ==
    /\ raised.kind = "error" /\ raised.lineno = 3
    /\ header.ns.defaultPackages /\ header.ns.nocore /\ ~header.ns.nobase
    /\ packages.seen /\ packages.excludeDocs /\ ~packages.addBase

\* C13: after a successful %packages header the record has seen = TRUE and
\* its excludeDocs, addBase, handleMissing, nocore and multiLib are the
\* values of that header alone; a header with only --default leaves
\* default = TRUE and addBase = TRUE.
C13_FieldsFromThisHeader ==
    raised.kind = "ok" =>
        /\ packages.seen
        /\ packages.excludeDocs = header.ns.excludedocs
        /\ packages.addBase = ~header.ns.nobase
        /\ packages.handleMissing = IF header.ns.ignoremissing
                                    THEN KS_MISSING_IGNORE
                                    ELSE KS_MISSING_PROMPT
        /\ packages.nocore = header.ns.nocore
        /\ packages.multiLib = header.ns.multiLib
        /\ header.ns.defaultPackages => packages.default /\ packages.addBase

\* a header with only --default has succeeded after an earlier header (the
\* one that left instLangs) had succeeded
C13_Witness ==
    /\ raised.kind = "ok" /\ headerCalls >= 2
    /\ header.ns = [excludedocs |-> FALSE, ignoremissing |-> FALSE,
                    multiLib |-> FALSE, nobase |-> FALSE, nocore |-> FALSE,
                    defaultPackages |-> TRUE, instLangs |-> None]
    /\ packages.instLangs # None
    /\ packages.default /\ packages.addBase

\* C14: a successful header without --instLangs leaves the record's
\* instLangs as it was, a header with --instLangs=V sets it to V, and
\* nothing else changes it.
C14_InstLangsOnlyWhenGiven ==
    [][ /\ HeaderStep /\ raised'.kind = "ok" =>
              packages'.instLangs = IF header'.ns.instLangs = None
                                    THEN packages.instLangs
                                    ELSE header'.ns.instLangs
        /\ packages'.instLangs # packages.instLangs =>
              HeaderStep /\ header'.ns.instLangs # None ]_vars

\* the value of the first header has survived two later headers without
\* the option
C14_Witness ==
    /\ packages.instLangs = "en_US" /\ header.ns.instLangs = None
    /\ raised.kind = "ok" /\ headerCalls >= 3

\* C18: default is sticky: no step takes it from TRUE to FALSE, a
\* successful header leaves it TRUE exactly when it was TRUE or the header
\* has --default, while excludeDocs, addBase, handleMissing, nocore and
\* multiLib are overwritten by the same header.
C18_DefaultSticky ==
    [][ /\ packages.default => packages'.default
        /\ HeaderStep /\ raised'.kind = "ok" =>
              /\ packages'.default =
                     (packages.default \/ header'.ns.defaultPackages)
              /\ packages'.excludeDocs = header'.ns.excludedocs
              /\ packages'.addBase = ~header'.ns.nobase
              /\ packages'.nocore = header'.ns.nocore
              /\ packages'.multiLib = header'.ns.multiLib ]_vars

\* default is still TRUE after a successful header without --default, which
\* has overwritten addBase
C18_Witness ==
    /\ packages.default /\ ~header.ns.defaultPackages /\ raised.kind = "ok"
    /\ header.ns.nobase /\ ~packages.addBase

\* C20: a %packages header that raises still increments timesSeen; after a
\* failed first header the section's seen is TRUE and the record's seen is
\* FALSE.
C20_FailedHeaderCounts ==
    /\ [](headerCalls = 1 /\ raised.kind = "error" =>
             seen /\ ~packages.seen)
    /\ [][HeaderStep /\ raised'.kind = "error" =>
             timesSeen' = timesSeen + 1]_vars

\* the first header of the file was refused
C20_Witness ==
    /\ headerCalls = 1 /\ raised.kind = "error"
    /\ timesSeen = 1 /\ ~packages.seen

(***************************************************************************)
(* Groups whose name contains a slash (checked under SpecMP)               *)
(***************************************************************************)
\* C19: every group whose name contains '/' holds exactly one path; only
\* groups with a '/'-free name hold more than one.
C19_SlashGroupSinglePath ==
    \A g \in 1..Len(mpaths) :
        HasSlash(mpaths[g].name) => Len(mpaths[g].paths) = 1

\* the same name with a slash was given twice: two groups of one path each
C19_Witness ==
    \E g, h \in 1..Len(mpaths) :
        /\ g < h
        /\ mpaths[g].name = mpaths[h].name /\ HasSlash(mpaths[g].name)
        /\ Len(mpaths[g].paths) = 1 /\ Len(mpaths[h].paths) = 1

====
